---- MODULE Spec2Model ----
(***************************************************************************)
(* Acey Ducey (01_Acey_Ducey/cpp): the game engine of AceyDucey.cpp as a   *)
(* state machine.  run() is the loop, play_turn() one round.  A            *)
(* std::string is a sequence of one-character strings, a rank label a      *)
(* std::string_view of the same shape.                                     *)
(***************************************************************************)
EXTENDS Integers, Sequences, FiniteSets, TLC

VARIABLES
  balance,        \* int balance
  state,          \* State state
  pc,             \* position of the single thread inside run()/play_turn()
  first_pick,     \* play_turn local, <<>> while not live
  second_pick,    \* play_turn local, <<>> while not live
  third_pick,     \* play_turn local, <<>> while not live
  input,          \* the string returned by get_input_line() at the bet prompt
  bet,            \* play_turn local
  response,       \* play_turn local (reply to TRY AGAIN), kept for the round
  out,            \* the lines printed by the current round, as message tags
  shown,          \* the pair of labels printed by print_cards in this round
  deals,          \* number of deal_card() calls of the current round
  entry_state,    \* state at the entry of the current round
  entry_balance,  \* balance at the entry of the current round
  intro,          \* number of times banner and instructions were printed
  farewell        \* number of times the farewell line was printed

vars == <<balance, state, pc, first_pick, second_pick, third_pick, input, bet,
          response, out, shown, deals, entry_state, entry_balance, intro,
          farewell>>

(* ------------------------------ constants ------------------------------ *)

\* largest value of the int that holds balance and bet
IntMax == 2147483647

\* balance(100) in the constructor
StartBalance == 100

\* balance = 100 after an affirmative reply
ReplayBalance == 100

\* a new round is explored only while balance <= MaxBalance
MaxBalance == 100

CARDS ==
  << <<"2">>, <<"3">>, <<"4">>, <<"5">>, <<"6">>, <<"7">>, <<"8">>, <<"9">>,
     <<"1", "0">>, <<"J">>, <<"Q">>, <<"K">>, <<"A">> >>

\* a deck that holds a label the rank table does not have
deck_with_joker == Append(CARDS, <<"J", "O", "K", "E", "R">>)

\* deck(std::ranges::begin(CARDS), std::ranges::end(CARDS)); never modified
deck == CARDS

States == {"Initialising", "Playing", "BetNothing", "GameOver"}

\* marks a decimal value above IntMax, which the checker's integers cannot hold
OutOfRange == -1

NoCard == <<>>
NoText == <<"(none)">>

(* ---------------------------- character level -------------------------- *)

DigitChars == <<"0", "1", "2", "3", "4", "5", "6", "7", "8", "9">>
LowerChars == <<"a", "b", "c", "d", "e", "f", "g", "h", "i", "j", "k", "l", "m",
                "n", "o", "p", "q", "r", "s", "t", "u", "v", "w", "x", "y", "z">>
UpperChars == <<"A", "B", "C", "D", "E", "F", "G", "H", "I", "J", "K", "L", "M",
                "N", "O", "P", "Q", "R", "S", "T", "U", "V", "W", "X", "Y", "Z">>

\* std::isspace in the C locale (the vertical tab has no TLA+ escape)
isspace(ch) == ch \in {" ", "\t", "\n", "\r", "\f"}

\* ::isdigit
isdigit(ch) == \E i \in 1..10 : DigitChars[i] = ch

\* std::toupper in the C locale
toupper(c) ==
  IF \E i \in 1..26 : LowerChars[i] = c
  THEN UpperChars[CHOOSE i \in 1..26 : LowerChars[i] = c]
  ELSE c

RECURSIVE TrimLeft(_)
\* line.erase(line.begin(), find_if(line.begin(), line.end(), is_not_space))
TrimLeft(line) ==
  IF line = <<>> THEN <<>>
  ELSE IF isspace(Head(line)) THEN TrimLeft(Tail(line)) ELSE line

RECURSIVE TrimRight(_)
\* line.erase(find_if(line.rbegin(), line.rend(), is_not_space).base(), line.end())
TrimRight(line) ==
  IF line = <<>> THEN <<>>
  ELSE IF isspace(line[Len(line)])
       THEN TrimRight(SubSeq(line, 1, Len(line) - 1))
       ELSE line

\* std::transform(line.begin(), line.end(), line.begin(), toupper)
UpperCase(line) ==
  IF line = <<>> THEN <<>> ELSE [i \in 1..Len(line) |-> toupper(line[i])]

\* get_input_line() applied to the raw line std::getline delivered
get_input_line(raw) == UpperCase(TrimRight(TrimLeft(raw)))

DigitVal(ch) == (CHOOSE i \in 1..10 : DigitChars[i] = ch) - 1

RECURSIVE DecimalValue(_)
\* the value std::stoi accumulates for an all-digit string; OutOfRange stands
\* for every value that does not fit an int
DecimalValue(s) ==
  IF s = <<>> THEN 0
  ELSE LET v == DecimalValue(SubSeq(s, 1, Len(s) - 1))
           d == DigitVal(s[Len(s)])
       IN  IF v = OutOfRange \/ v > (IntMax - d) \div 10
           THEN OutOfRange
           ELSE 10 * v + d

\* !s.empty() && std::ranges::all_of(s, ::isdigit)
AllDigits(s) == s # <<>> /\ \A i \in 1..Len(s) : isdigit(s[i])

\* std::stoi throws std::out_of_range when the value does not fit an int;
\* nothing catches it, so the process terminates
StoiThrows(s) == AllDigits(s) /\ DecimalValue(s) = OutOfRange

\* get_positive_integer(s), for the strings on which std::stoi does not throw
get_positive_integer(s) == IF AllDigits(s) THEN DecimalValue(s) ELSE -1

RECURSIVE Decimal(_)
\* the decimal text a player types for the number n
Decimal(n) ==
  IF n < 0 THEN <<"-">> \o Decimal(0 - n)
  ELSE IF n < 10 THEN <<DigitChars[n + 1]>>
  ELSE Append(Decimal(n \div 10), DigitChars[(n % 10) + 1])

(* ------------------------------ rank level ----------------------------- *)

RECURSIVE FindFrom(_, _)
\* std::ranges::find(CARDS, value): 0-based position, 13 = CARDS.end()
FindFrom(value, i) ==
  IF i > Len(CARDS) THEN Len(CARDS)
  ELSE IF CARDS[i] = value THEN i - 1 ELSE FindFrom(value, i + 1)

\* index_of of is_between: distance(CARDS.begin(), it)
index_of(value) == FindFrom(value, 1)

\* index_of of print_cards: -1 when the label is not in the table
index_of_or_neg(value) ==
  IF FindFrom(value, 1) = Len(CARDS) THEN -1 ELSE FindFrom(value, 1)

\* is_between with the floor included
is_between_floor_included(a, b, test) ==
  LET idx_a0 == index_of(a)
      idx_b0 == index_of(b)
      idx_test == index_of(test)
      idx_a == IF idx_a0 > idx_b0 THEN idx_b0 ELSE idx_a0
      idx_b == IF idx_a0 > idx_b0 THEN idx_a0 ELSE idx_b0
  IN  idx_test >= idx_a /\ idx_test < idx_b

\* is_between with the ceiling included
is_between_ceiling_included(a, b, test) ==
  LET idx_a0 == index_of(a)
      idx_b0 == index_of(b)
      idx_test == index_of(test)
      idx_a == IF idx_a0 > idx_b0 THEN idx_b0 ELSE idx_a0
      idx_b == IF idx_a0 > idx_b0 THEN idx_a0 ELSE idx_b0
  IN  idx_test > idx_a /\ idx_test <= idx_b

\* is_between without the swap of the two bounds
is_between_unswapped(a, b, test) ==
  LET idx_a == index_of(a)
      idx_b == index_of(b)
      idx_test == index_of(test)
  IN  idx_test > idx_a /\ idx_test < idx_b

is_between(a, b, test) ==
  LET idx_a0 == index_of(a)
      idx_b0 == index_of(b)
      idx_test == index_of(test)
      idx_a == IF idx_a0 > idx_b0 THEN idx_b0 ELSE idx_a0
      idx_b == IF idx_a0 > idx_b0 THEN idx_a0 ELSE idx_b0
  IN  idx_test > idx_a /\ idx_test < idx_b

\* the pair print_cards prints, <<>> when it takes its error branch
print_cards(a, b) ==
  LET idx_a == index_of_or_neg(a)
      idx_b == index_of_or_neg(b)
  IN  IF idx_a = -1 \/ idx_b = -1 THEN <<>>
      ELSE IF idx_a > idx_b THEN <<b, a>> ELSE <<a, b>>

\* is_game_over that lets a balance of zero play on
is_game_over_negative_only == balance < 0

is_game_over == balance <= 0

\* a loop that never tests the state
RunningAlways(st) == TRUE

\* while (state != State::GameOver)
Running(st) == st # "GameOver"

\* a bet test that only rejects zero
DeclinesZeroOnly(b) == b = 0

\* a bet test that lets zero through
DeclinesNegativeOnly(b) == b < 0

\* if (bet <= 0)
Declines(b) == b <= 0

\* a bet compared with the starting balance instead of the current one
OverBetAgainstStart(b, bal) == b > StartBalance

\* else if (bet > balance)
OverBet(b, bal) == b > bal

\* balance -= bet (0 < bet <= balance keeps the difference in range)
LoseBalance(bal, b) == bal - b

\* if (balance <= 0) of the losing branch
Broke(bal) == bal <= 0

\* a reply compared with "Y"
AffirmativeShort(r) == r = <<"Y">>

\* if (response == "YES")
Affirmative(r) == r = <<"Y", "E", "S">>

\* a round that ends by restarting the state machine
TurnEndStateRestart == "Initialising"

\* state = State::Playing; the last statement of play_turn()
TurnEndState == "Playing"

\* a round that prints the balance whatever the state
ShowsBalanceAlways(st) == TRUE

\* if (state == State::Playing) in front of the balance line
ShowsBalance(st) == st = "Playing"

(* ------------------------------- inputs -------------------------------- *)

\* the raw lines std::getline may deliver at a prompt while the balance is bal
InputLines(bal) ==
  { <<>>,
    <<"0">>,
    <<"0", "0">>,
    <<" ", "5", "0", "\t">>,
    <<"0", "5", "0">>,
    <<"-", "5">>,
    <<"5", "x">>,
    <<"y", "e", "s">>,
    <<" ", "Y", "e", "s", "\r">>,
    <<"y", "e", "s", " ", "n", "o">>,
    <<"n", "o">>,
    Decimal(bal),
    IF bal < IntMax THEN Decimal(bal + 1) ELSE Decimal(bal),
    <<"2", "1", "4", "7", "4", "8", "3", "6", "4", "8">> }

\* the lines of a player who always bets the whole balance
AllInLines(bal) == { Decimal(bal), <<"n", "o">>, <<"Y", "E", "S">> }

(* ------------------------------- actions ------------------------------- *)

Init ==
  /\ balance = StartBalance
  /\ state = "Initialising"
  /\ pc = "loop"
  /\ first_pick = NoCard
  /\ second_pick = NoCard
  /\ third_pick = NoCard
  /\ input = NoText
  /\ bet = 0
  /\ response = NoText
  /\ out = <<>>
  /\ shown = <<>>
  /\ deals = 0
  /\ entry_state = "Initialising"
  /\ entry_balance = StartBalance
  /\ intro = 0
  /\ farewell = 0

\* while (state != State::GameOver)
LoopTest ==
  /\ pc = "loop"
  /\ pc' = IF Running(state) THEN "switch" ELSE "done"
  /\ UNCHANGED <<balance, state, first_pick, second_pick, third_pick, input,
                 bet, response, out, shown, deals, entry_state, entry_balance,
                 intro, farewell>>

\* switch (state): the Initialising and GameOver cases, and the call of
\* play_turn() of the Playing and BetNothing cases
Dispatch(cap) ==
  /\ pc = "switch"
  /\ state \in {"Playing", "BetNothing"} => balance <= cap
  /\ CASE state = "Initialising" ->
            /\ intro' = intro + 1
            /\ state' = "Playing"
            /\ pc' = "loop"
            /\ UNCHANGED farewell
       [] state \in {"Playing", "BetNothing"} ->
            /\ pc' = "play_turn"
            /\ UNCHANGED <<state, intro, farewell>>
       [] OTHER ->
            /\ farewell' = farewell + 1
            /\ pc' = "loop"
            /\ UNCHANGED <<state, intro>>
  /\ UNCHANGED <<balance, first_pick, second_pick, third_pick, input, bet,
                 response, out, shown, deals, entry_state, entry_balance>>

\* play_turn() up to the bet prompt: balance line, two cards, print_cards
DealTwo ==
  /\ pc = "play_turn"
  /\ \E i \in 1..Len(deck), j \in 1..Len(deck) :
       /\ first_pick' = deck[i]
       /\ second_pick' = deck[j]
       /\ shown' = print_cards(deck[i], deck[j])
  /\ out' = (IF ShowsBalance(state) THEN <<"YOU NOW HAVE">> ELSE <<>>)
            \o <<"HERE ARE YOUR NEXT TWO CARDS", "WHAT IS YOUR BET">>
  /\ deals' = 2
  /\ third_pick' = NoCard
  /\ input' = NoText
  /\ bet' = 0
  /\ response' = NoText
  /\ entry_state' = state
  /\ entry_balance' = balance
  /\ pc' = "bet"
  /\ UNCHANGED <<balance, state, intro, farewell>>

\* get_input_line() at the bet prompt
ReadBet(lines) ==
  /\ pc = "bet"
  /\ \E raw \in lines : input' = get_input_line(raw)
  /\ pc' = "parse"
  /\ UNCHANGED <<balance, state, first_pick, second_pick, third_pick, bet,
                 response, out, shown, deals, entry_state, entry_balance,
                 intro, farewell>>

\* balance += bet: a sum above INT_MAX is signed overflow, which wraps or traps
AddOutcomes(a, b) ==
  IF a <= IntMax - b
  THEN { [trap |-> FALSE, value |-> a + b] }
  ELSE { [trap |-> FALSE, value |-> (a - IntMax - 1) + (b - IntMax - 1)],
         [trap |-> TRUE, value |-> a] }

\* get_positive_integer and the three branches on the bet, to the settlement
PlaceBet ==
  /\ pc = "parse"
  /\ IF StoiThrows(input)
     THEN /\ pc' = "aborted"
          /\ UNCHANGED <<balance, state, first_pick, second_pick, third_pick,
                         bet, out, deals>>
     ELSE LET b == get_positive_integer(input) IN
          /\ bet' = b
          /\ IF Declines(b)
             THEN /\ out' = Append(out, "CHICKEN!!")
                  /\ state' = "BetNothing"
                  /\ pc' = "ret"
                  /\ first_pick' = NoCard
                  /\ second_pick' = NoCard
                  /\ UNCHANGED <<balance, third_pick, deals>>
             ELSE IF OverBet(b, balance)
             THEN /\ out' = out \o <<"YOU BET TOO MUCH", "YOU HAVE ONLY">>
                  /\ pc' = "end"
                  /\ UNCHANGED <<balance, state, first_pick, second_pick,
                                 third_pick, deals>>
             ELSE \E k \in 1..Len(deck) :
                  /\ third_pick' = deck[k]
                  /\ deals' = deals + 1
                  /\ IF is_between(first_pick, second_pick, deck[k])
                     THEN \E o \in AddOutcomes(balance, b) :
                          /\ balance' = o.value
                          /\ pc' = IF o.trap THEN "aborted" ELSE "settled"
                          /\ out' = out \o <<"THIRD CARD", "YOU WIN!!!">>
                     ELSE /\ balance' = LoseBalance(balance, b)
                          /\ pc' = "settled"
                          /\ out' = out \o <<"THIRD CARD", "SORRY, YOU LOSE">>
                  /\ UNCHANGED <<state, first_pick, second_pick>>
  /\ UNCHANGED <<input, response, shown, entry_state, entry_balance, intro,
                 farewell>>

\* if (balance <= 0) of the losing branch, with its message and prompt
CheckBroke ==
  /\ pc = "settled"
  /\ IF out[Len(out)] = "SORRY, YOU LOSE" /\ Broke(balance)
     THEN /\ out' = out \o <<"YOU BLEW YOUR WAD", "TRY AGAIN">>
          /\ pc' = "reply"
     ELSE /\ pc' = "end"
          /\ UNCHANGED out
  /\ first_pick' = NoCard
  /\ second_pick' = NoCard
  /\ third_pick' = NoCard
  /\ UNCHANGED <<balance, state, input, bet, response, shown, deals,
                 entry_state, entry_balance, intro, farewell>>

\* get_input_line() at the replay prompt and the branch on the reply
ReadReply(lines) ==
  /\ pc = "reply"
  /\ \E raw \in lines :
       /\ response' = get_input_line(raw)
       /\ IF Affirmative(get_input_line(raw))
          THEN /\ state' = "Playing"
               /\ balance' = ReplayBalance
          ELSE /\ state' = "GameOver"
               /\ UNCHANGED balance
  /\ pc' = "end"
  /\ UNCHANGED <<first_pick, second_pick, third_pick, input, bet, out, shown,
                 deals, entry_state, entry_balance, intro, farewell>>

\* state = State::Playing; the last statement of play_turn()
EndTurn ==
  /\ pc = "end"
  /\ state' = TurnEndState
  /\ pc' = "ret"
  /\ first_pick' = NoCard
  /\ second_pick' = NoCard
  /\ third_pick' = NoCard
  /\ UNCHANGED <<balance, input, bet, response, out, shown, deals,
                 entry_state, entry_balance, intro, farewell>>

\* if (is_game_over()) state = State::GameOver; break;
CheckGameOver ==
  /\ pc = "ret"
  /\ state' = IF is_game_over THEN "GameOver" ELSE state
  /\ pc' = "loop"
  /\ UNCHANGED <<balance, first_pick, second_pick, third_pick, input, bet,
                 response, out, shown, deals, entry_state, entry_balance,
                 intro, farewell>>

Next ==
  \/ LoopTest
  \/ Dispatch(MaxBalance)
  \/ DealTwo
  \/ ReadBet(InputLines(balance))
  \/ PlaceBet
  \/ CheckBroke
  \/ ReadReply(InputLines(balance))
  \/ EndTurn
  \/ CheckGameOver

Spec == Init /\ [][Next]_vars

\* the same program driven by a player who always bets everything
NextAllIn ==
  \/ LoopTest
  \/ Dispatch(IntMax)
  \/ DealTwo
  \/ ReadBet(AllInLines(balance))
  \/ PlaceBet
  \/ CheckBroke
  \/ ReadReply(AllInLines(balance))
  \/ EndTurn
  \/ CheckGameOver

SpecAllIn == Init /\ [][NextAllIn]_vars

(* -------------------- the single-file variant of the game --------------- *)

\* the character code by which std::string_view compares two characters
CharCode(c) ==
  IF isdigit(c) THEN 48 + DigitVal(c)
  ELSE 64 + (CHOOSE i \in 1..26 : UpperChars[i] = c)

RECURSIVE LexGreater(_, _)
\* card1 > card2 on std::string_view: lexicographic, a proper prefix is smaller
LexGreater(a, b) ==
  IF a = <<>> THEN FALSE
  ELSE IF b = <<>> THEN TRUE
  ELSE IF CharCode(Head(a)) # CharCode(Head(b))
       THEN CharCode(Head(a)) > CharCode(Head(b))
       ELSE LexGreater(Tail(a), Tail(b))

\* print_cards of the single-file variant: the pair it prints
print_cards_single(a, b) == IF LexGreater(a, b) THEN <<b, a>> ELSE <<a, b>>

\* get_input_line of the single-file variant: trimmed, case kept
get_input_line_single(raw) == TrimRight(TrimLeft(raw))

\* is_positive_integer of the single-file variant
is_positive_integer(s) == s # <<>> /\ \A i \in 1..Len(s) : isdigit(s[i])

\* play_turn of the single-file variant up to its prompt
DealTwoSingle ==
  /\ pc = "play_turn"
  /\ \E i \in 1..Len(deck), j \in 1..Len(deck) :
       /\ first_pick' = deck[i]
       /\ second_pick' = deck[j]
       /\ shown' = print_cards_single(deck[i], deck[j])
  /\ out' = <<"You have", "Here are your next two cards",
              "How much do you want to bet?">>
  /\ deals' = 2
  /\ input' = NoText
  /\ entry_state' = state
  /\ entry_balance' = balance
  /\ pc' = "bet"
  /\ UNCHANGED <<balance, state, third_pick, bet, response, intro, farewell>>

\* the rest of play_turn of the single-file variant: read a line, classify it
ReadBetSingle(lines) ==
  /\ pc = "bet"
  /\ \E raw \in lines :
       /\ input' = get_input_line_single(raw)
       /\ out' = Append(out, IF is_positive_integer(get_input_line_single(raw))
                             THEN "Positive integer entered"
                             ELSE "Invalid input")
  /\ first_pick' = NoCard
  /\ second_pick' = NoCard
  /\ pc' = "ret"
  /\ UNCHANGED <<balance, state, third_pick, bet, response, shown, deals,
                 entry_state, entry_balance, intro, farewell>>

\* run() of the single-file variant has the loop, the cases and the balance
\* test of run() above, without the BetNothing label
NextSingle ==
  \/ LoopTest
  \/ Dispatch(IntMax)
  \/ DealTwoSingle
  \/ ReadBetSingle(InputLines(balance))
  \/ CheckGameOver

SpecSingle == Init /\ [][NextSingle]_vars

TypeOK ==
  /\ balance \in Int
  /\ state \in States
  /\ pc \in {"loop", "switch", "play_turn", "bet", "parse", "settled", "reply",
             "end", "ret", "done", "aborted"}
  /\ deals \in 0..3
  /\ intro \in 0..1

(* ------------------------------- claims -------------------------------- *)

YES == <<"Y", "E", "S">>

\* the current round printed the message tag
Printed(tag) == \E i \in 1..Len(out) : out[i] = tag

\* the number of input prompts the current round has issued
Prompts ==
  Cardinality({ i \in 1..Len(out) : out[i] \in {"WHAT IS YOUR BET", "TRY AGAIN"} })

\* the round has just settled an accepted bet as a win / as a loss
Won == pc = "settled" /\ out[Len(out)] = "YOU WIN!!!"
Lost == pc = "settled" /\ out[Len(out)] = "SORRY, YOU LOSE"

\* position of a label in the table 2,3,...,10,J,Q,K,A
RankPos(label) == CHOOSE i \in 0..12 : CARDS[i + 1] = label

Min(x, y) == IF x < y THEN x ELSE y
Max(x, y) == IF x < y THEN y ELSE x

\* a bet text that is an explicit zero or not a non-empty all-digit string
DeclinedText(s) ==
  \/ s = <<>>
  \/ \E i \in 1..Len(s) : s[i] \notin {"0", "1", "2", "3", "4", "5", "6", "7", "8", "9"}
  \/ \A i \in 1..Len(s) : s[i] = "0"

\* C1: once an accepted bet (0 < bet <= balance) is settled, a third card has
\* been dealt and the balance is exactly the balance at entry plus the bet when
\* is_between(first, second, third) holds, and exactly that balance minus the
\* bet when it does not.
C1_Settlement ==
  pc = "settled" =>
    /\ bet > 0 /\ bet <= entry_balance
    /\ deals = 3 /\ third_pick # NoCard
    /\ IF is_between(first_pick, second_pick, third_pick)
       THEN balance >= bet /\ balance - bet = entry_balance
       ELSE balance + bet = entry_balance

\* C2: when the bet text is an explicit zero or not a non-empty all-digit
\* string, play_turn returns with the balance unchanged, no third card dealt
\* and state BetNothing, whatever the state at entry was.
C2_DeclinedBet ==
  (pc = "ret" /\ DeclinedText(input)) =>
    /\ balance = entry_balance
    /\ deals = 2
    /\ state = "BetNothing"

C2_Witness ==
  /\ pc = "ret"
  /\ entry_state = "BetNothing"
  /\ input = <<"0">>
  /\ state = "BetNothing"
  /\ Printed("CHICKEN!!")

\* C3: when the parsed bet exceeds the balance, play_turn returns with the
\* balance unchanged, no third card dealt, one prompt only in the round, and
\* state Playing, also when the round was entered in BetNothing.
C3_OverBet ==
  (pc = "ret" /\ bet > entry_balance) =>
    /\ balance = entry_balance
    /\ deals = 2
    /\ Prompts = 1
    /\ state = "Playing"

C3_Witness ==
  /\ pc = "ret"
  /\ entry_state = "BetNothing"
  /\ bet > entry_balance
  /\ Printed("YOU BET TOO MUCH")
  /\ state = "Playing"

\* C4: when a loss left balance <= 0 and the trimmed, upper-cased reply is YES,
\* the balance is exactly 100 and the state Playing from the reply on, through
\* the return of play_turn and the loop test, up to the entry of the next round.
C4_ReplayReset ==
  (Printed("YOU BLEW YOUR WAD") /\ response = YES
     /\ pc \in {"end", "ret", "loop", "switch", "play_turn"}) =>
    /\ balance = 100
    /\ state = "Playing"

C4_Witness ==
  /\ pc = "play_turn"
  /\ Printed("YOU BLEW YOUR WAD")
  /\ response = YES
  /\ entry_balance = bet
  /\ balance = 100

\* C5: when a loss left balance <= 0 and the reply is not YES, the state is
\* GameOver when the loop iteration ends; and from GameOver at the loop test on
\* nothing is dealt or printed, balance and state keep their values, and the
\* only step left is the exit of the loop.
C5_GameOverTerminal ==
  /\ [](( pc = "loop" /\ Printed("YOU BLEW YOUR WAD") /\ response # YES )
          => state = "GameOver")
  /\ [][ (state = "GameOver" /\ pc \in {"loop", "switch", "done"})
          => /\ pc' = "done"
             /\ UNCHANGED <<balance, state, out, shown, deals, first_pick,
                            second_pick, third_pick, intro>> ]_vars

C5_Witness ==
  /\ pc = "done"
  /\ state = "GameOver"
  /\ Printed("YOU BLEW YOUR WAD")
  /\ response = <<"N", "O">>
  /\ balance = 0

\* C6: at every entry of play_turn the balance is positive.
C6_PositiveAtEntry == pc = "play_turn" => balance > 0

C6_Witness ==
  /\ pc = "play_turn"
  /\ state = "BetNothing"
  /\ balance = 50

\* C7: when run() has left its loop, the farewell line has been printed
\* exactly once.
C7_Farewell == pc = "done" => farewell = 1

\* C8: the result of is_between(first, second, third), as the settlement shows
\* it, is a win exactly when the table position of the third card lies strictly
\* between the smaller and the larger position of the two bound cards.
C8_StrictlyBetween ==
  pc = "settled" =>
    ( Won <=> /\ Min(RankPos(first_pick), RankPos(second_pick)) < RankPos(third_pick)
              /\ RankPos(third_pick) < Max(RankPos(first_pick), RankPos(second_pick)) )

C8_Witness ==
  /\ Won
  /\ first_pick = <<"A">>
  /\ second_pick = <<"2">>
  /\ third_pick = <<"1", "0">>

\* C9: the settled result of is_between(first, second, third) equals
\* is_between(second, first, third), and so does the settlement of the balance.
C9_OrderIndependent ==
  pc = "settled" =>
    /\ Won <=> is_between(second_pick, first_pick, third_pick)
    /\ (balance > entry_balance) <=> is_between(second_pick, first_pick, third_pick)

C9_Witness ==
  /\ Won
  /\ RankPos(first_pick) > RankPos(second_pick) + 1
  /\ balance = 150

\* C10: a round whose two bound cards are equal or adjacent in rank settles
\* every accepted bet as a loss, whatever the third card.
C10_EmptyInterval ==
  ( /\ pc = "settled"
    /\ RankPos(first_pick) - RankPos(second_pick) \in {-1, 0, 1} ) =>
    /\ Lost
    /\ balance = entry_balance - bet

C10_Witness ==
  /\ Lost
  /\ first_pick = <<"1", "0">>
  /\ second_pick = <<"9">>
  /\ third_pick = <<"9">>
  /\ balance = entry_balance - bet

\* C11: get_positive_integer yields -1 for every string that is not a
\* non-empty all-digit string and the parsed value for every all-digit string,
\* and never ends the game: once a bet text is read, the round is never aborted,
\* and after the parse the bet holds that result.
C11_ParseTotal ==
  (input # NoText /\ pc # "parse") =>
    /\ pc # "aborted"
    /\ AllDigits(input) => bet >= 0
    /\ ~AllDigits(input) => bet = -1

\* C12: when a loss left balance <= 0 and the reply is not YES, the state is
\* GameOver at the moment play_turn returns.
C12_GameOverAtReturn ==
  (pc = "ret" /\ Printed("YOU BLEW YOUR WAD") /\ response # YES) =>
    state = "GameOver"

\* the sequence of message tags o contains the tag
PrintedIn(o, tag) == \E i \in 1..Len(o) : o[i] = tag

\* C13: the Initialising state is left exactly once, for Playing, and never
\* entered again: banner and instructions are printed once, before any card is
\* dealt, also across broke-and-replay resets.
C13_InitialisedOnce ==
  /\ [](intro <= 1)
  /\ []((state = "Initialising") <=> (intro = 0))
  /\ [](deals > 0 => intro = 1)
  /\ [][state # "Initialising" => state' # "Initialising"]_vars
  /\ [][(state = "Initialising" /\ state' # "Initialising")
          => (state' = "Playing" /\ intro' = 1)]_vars

C13_Witness ==
  /\ intro = 1
  /\ state = "Playing"
  /\ pc = "switch"
  /\ response = YES
  /\ balance = ReplayBalance

\* C14: a round prints the balance at its start exactly when the state at its
\* entry is Playing, and the state at entry is BetNothing exactly when the round
\* before it declined its bet: only the round after a declined bet prints no
\* balance.
C14_BalanceLine ==
  [][ (pc = "play_turn" /\ pc' = "bet") =>
        /\ PrintedIn(out', "YOU NOW HAVE") <=> state = "Playing"
        /\ state = "BetNothing" <=> PrintedIn(out, "CHICKEN!!")
        /\ state \in {"Playing", "BetNothing"} ]_vars

C14_Witness ==
  /\ pc = "bet"
  /\ entry_state = "BetNothing"
  /\ ~Printed("YOU NOW HAVE")
  /\ Printed("HERE ARE YOUR NEXT TWO CARDS")

\* C15: whenever print_cards has printed the two cards of a round, the first
\* label printed is not above the second in the rank table, in the game of
\* AceyDucey.cpp and in the single-file variant alike.
C15_AscendingDisplay ==
  shown # <<>> =>
    /\ Len(shown) = 2
    /\ RankPos(shown[1]) <= RankPos(shown[2])

\* C16: rank lookup never fails: while the two bound cards are live, and the
\* third once it is dealt, every label is one of the 13 table entries, its
\* index lies in 0..12, and print_cards has not taken its error branch.
C16_LookupSucceeds ==
  /\ pc \in {"bet", "parse", "settled"} =>
       /\ index_of(first_pick) \in 0..12
       /\ index_of(second_pick) \in 0..12
       /\ index_of_or_neg(first_pick) # -1
       /\ index_of_or_neg(second_pick) # -1
       /\ shown = print_cards(first_pick, second_pick)
       /\ shown # <<>>
  /\ pc = "settled" => index_of(third_pick) \in 0..12

C16_Witness ==
  /\ pc = "settled"
  /\ index_of(first_pick) = 12
  /\ index_of(second_pick) = 0
  /\ index_of(third_pick) = 8
  /\ shown = << <<"2">>, <<"A">> >>

\* C17: the state is GameOver only in a round in which an accepted bet equal
\* to the whole balance was lost and the reply was not YES; declined bets,
\* over-bets, wins and partial losses never end the game.
C17_OnlyAllInLossEnds ==
  state = "GameOver" =>
    /\ Printed("SORRY, YOU LOSE")
    /\ Printed("YOU BLEW YOUR WAD")
    /\ bet = entry_balance
    /\ response # NoText /\ response # YES

\* C18: while the balance stays within the int range it is never negative,
\* also in the middle of a round, and the broke branch (its message and its
\* replay prompt) is entered with a balance of exactly 0.
C18_NeverNegative ==
  /\ balance >= 0
  /\ balance <= IntMax
  /\ pc = "reply" => (balance = 0 /\ bet = entry_balance)
  /\ (pc = "settled" /\ Lost) => balance = entry_balance - bet

C18_Witness ==
  /\ pc = "reply"
  /\ balance = 0
  /\ entry_balance = 50
  /\ bet = 50
  /\ Printed("YOU BLEW YOUR WAD")

C20_WinInRange ==
  (Printed("YOU WIN!!!") /\ pc \in {"settled", "aborted"}) =>
    /\ pc = "settled"
    /\ balance > entry_balance
    /\ balance - entry_balance = bet

====
